---- MODULE Spec2Model ----
(***************************************************************************)
(* Model of openrouter_mcp/server.py: the cached catalogue listing         *)
(* (list_models) and the chat completion router (chat_completion,          *)
(* get_candidates_for_auto_mode, try_chat_request).                        *)
(***************************************************************************)
EXTENDS Integers, Sequences, FiniteSets, TLC

(* ------------------------------ bounds -------------------------------- *)
\* the clock runs from StartTime up to MaxTime, in steps of TickSteps
MaxTime == 460
\* longest catalogue an upstream response carries
MaxCatalogLen == 2
\* upstream catalogue requests issued in one behaviour
MaxFetches == 2

(* ------------------------- program constants -------------------------- *)
MODEL_CACHE_TTL_SECONDS == 300
MinLimit == 1
MaxLimit == 100
\* float('inf'), on the price scale of PriceKey (tenths)
Inf == 1000000

StartTime == 1
TickSteps == {150, 300}

Min(a, b) == IF a < b THEN a ELSE b
Max(a, b) == IF a > b THEN a ELSE b

(* ----------------------------- catalogue ------------------------------ *)
\* A catalogue entry: its id (a sequence of characters) and the value of
\* pricing.prompt ("N/A" stands for an entry without that key).
Entries ==
    { [id |-> <<"a">>, price |-> "0.2"],
      [id |-> <<"B">>, price |-> "0"],
      [id |-> <<"c">>, price |-> "abc"] }

RECURSIVE SeqsUpTo(_, _)
SeqsUpTo(S, n) ==
    IF n = 0 THEN {<<>>}
    ELSE LET shorter == SeqsUpTo(S, n - 1)
         IN  shorter \cup { Append(s, e) : s \in shorter, e \in S }

Distinct(s) == \A i, j \in 1..Len(s) : i # j => s[i] # s[j]

CatalogLists == { s \in SeqsUpTo(Entries, MaxCatalogLen) : Distinct(s) }

\* The value found under the "data" key of a catalogue response: a list of
\* entries, or a JSON value of another type.
ListValue(s) == [type |-> "list", entries |-> s]
EmptyDictValue == [type |-> "empty_dict", entries |-> <<>>]
NullValue == [type |-> "null", entries |-> <<>>]
DataValues == { ListValue(s) : s \in CatalogLists } \cup {EmptyDictValue, NullValue}

\* What the catalogue GET can come back with.
CatalogResponses ==
    { [kind |-> "network_error", code |-> 0, data |-> NullValue],
      [kind |-> "status_error",  code |-> 500, data |-> NullValue],
      [kind |-> "not_json",      code |-> 200, data |-> NullValue],
      [kind |-> "no_data",       code |-> 200, data |-> NullValue] }
    \cup { [kind |-> "ok", code |-> 200, data |-> d] : d \in DataValues }

(* --------------------------- str operations --------------------------- *)
\* str.lower() on the characters of the model
LowerChar(c) == IF c = "A" THEN "a" ELSE IF c = "B" THEN "b" ELSE IF c = "C" THEN "c" ELSE c
Lower(s) == [i \in 1..Len(s) |-> LowerChar(s[i])]

\* Python's `sub in s` on strings
Contains(s, sub) ==
    \E k \in 0..(Len(s) - Len(sub)) :
        \A i \in 1..Len(sub) : s[k + i] = sub[i]

\* float(x.get("pricing", {}).get("prompt", 'inf')): the key the sort uses,
\* in tenths; a string float() rejects raises ValueError.
PriceParses(e) == e.price \in {"0", "0.2", "N/A"}
PriceKey(e) ==
    IF e.price = "0" THEN 0
    ELSE IF e.price = "0.2" THEN 2
    ELSE Inf

\* list.sort(key=...): stable, ascending
RECURSIVE InsertByKey(_, _)
InsertByKey(sorted, e) ==
    IF sorted = <<>> THEN <<e>>
    ELSE IF PriceKey(sorted[Len(sorted)]) <= PriceKey(e) THEN Append(sorted, e)
    ELSE Append(InsertByKey(SubSeq(sorted, 1, Len(sorted) - 1), e), sorted[Len(sorted)])

RECURSIVE SortByPrice(_)
SortByPrice(s) ==
    IF s = <<>> THEN <<>>
    ELSE InsertByKey(SortByPrice(SubSeq(s, 1, Len(s) - 1)), s[Len(s)])

(* ------------------------------- state -------------------------------- *)
VARIABLES
    now,            \* time.time()
    API_KEY,        \* TRUE when OPENROUTER_API_KEY is set
    model_cache,    \* the module-level cache {"models", "expiry"}
    lm,             \* the list_models invocations in progress
    last,           \* the list_models invocation that returned last
    fetchCount,     \* catalogue GETs issued so far
    refreshedAt,    \* when a fetched list last went into the cache, -1 if never
    stored,         \* the fetched value the cache was last given, and when
    MODEL_ALIASES,  \* the alias table: lower-cased alias -> model id
    DEFAULT_MODEL,  \* OPENROUTER_DEFAULT_MODEL
    chat,           \* the chat_completion invocation
    probes          \* the chat POSTs of this invocation, in order of issue

vars == <<now, API_KEY, model_cache, lm, last, fetchCount, refreshedAt, stored,
          MODEL_ALIASES, DEFAULT_MODEL, chat, probes>>
configVars == <<API_KEY, MODEL_ALIASES, DEFAULT_MODEL>>
catalogVars == <<model_cache, lm, last, fetchCount, refreshedAt, stored>>
chatVars == <<chat, probes>>


Readers == {"r1", "r2"}
Limits == {0, 200}
\* the search argument; <<>> stands for None and for "", both falsy
Searches == {<<>>, <<"A">>}

NoResult == [kind |-> "none", text |-> "", top |-> 0, found |-> 0, aliases |-> {}, shown |-> <<>>]
ErrorResult(t) == [kind |-> "error", text |-> t, top |-> 0, found |-> 0, aliases |-> {}, shown |-> <<>>]
IdleReader == [pc |-> "idle", limit |-> 0, search |-> <<>>]

\* What a returned invocation did: its path ("no_key", "cached", "fetched"),
\* the response its GET received and the value under "data", its search
\* argument, the string it returned and the time of its return.
Returned(path, resp, data, search, result, t) ==
    [path |-> path, resp |-> resp, data |-> data, search |-> search,
     result |-> result, at |-> t]
NoReturn == Returned("none", "none", NullValue, <<>>, NoResult, 0)

\* The value under "data" that the last cache update was given, as the
\* response carried it, and the time of that update.
Stored(data, t) == [written |-> TRUE, data |-> data, at |-> t]
NeverStored == [written |-> FALSE, data |-> ListValue(<<>>), at |-> 0]

(* ---------------------------- list_models ----------------------------- *)
\* safe_limit = max(1, min(100, limit))
SafeLimit(limit) == Max(MinLimit, Min(MaxLimit, limit))

\* the cache check with the cache ignored
CacheFreshNever(t, cache) == FALSE

\* time.time() < model_cache["expiry"]
CacheFresh(t, cache) == t < cache.expiry

\* models = [m for m in models if search.lower() in m["id"].lower()]
\* iterates its operand: None is not iterable, an empty dict yields nothing
FilterRaises(value, search) == search # <<>> /\ value.type = "null"
Matches(e, search) == Contains(Lower(e.id), Lower(search))
Filtered(value, search) ==
    IF search = <<>> THEN value
    ELSE ListValue(SelectSeq(value.entries, LAMBDA e : Matches(e, search)))

\* models.sort(key=...): only a list has .sort, and float() must accept
\* every price; when the key raises the list is left as it was
SortRaises(value) ==
    \/ value.type # "list"
    \/ \E i \in 1..Len(value.entries) : ~PriceParses(value.entries[i])

\* the header (count, limit, alias keys) and the lines of the listing
Listing(sorted, limit) ==
    [kind |-> "listing", text |-> "", top |-> SafeLimit(limit), found |-> Len(sorted),
     aliases |-> DOMAIN MODEL_ALIASES,
     shown |-> SubSeq(sorted, 1, Min(SafeLimit(limit), Len(sorted)))]

\* only the exceptions of httpx handled: any other one leaves list_models
CaughtHttpOnly(exc) ==
    IF exc = "HTTPStatusError" THEN ErrorResult("API Error 500 while fetching models.")
    ELSE IF exc = "RequestError"
         THEN ErrorResult("An unexpected error occurred while fetching models.")
    ELSE [ErrorResult(exc) EXCEPT !.kind = "raised"]

\* the two except clauses of list_models: what it returns when `exc` is
\* raised inside its try block
Caught(exc) ==
    IF exc = "HTTPStatusError" THEN ErrorResult("API Error 500 while fetching models.")
    ELSE ErrorResult("An unexpected error occurred while fetching models.")

\* the exception lines 125-128 raise on `value`
RenderError(value, search) ==
    IF FilterRaises(value, search) THEN "TypeError"
    ELSE IF Filtered(value, search).type # "list" THEN "AttributeError"
    ELSE "ValueError"

\* the filtered list written back over the object it was taken from
RenderKeepsFiltered(value, search, limit) ==
    LET raises == FilterRaises(value, search) \/ SortRaises(Filtered(value, search))
    IN  [result |-> IF raises
                    THEN Caught(RenderError(value, search))
                    ELSE Listing(SortByPrice(Filtered(value, search).entries), limit),
         object |-> IF raises THEN value
                    ELSE ListValue(SortByPrice(Filtered(value, search).entries))]

\* Lines 125-139 applied to `value`: the string returned, and the state of
\* the object `value` afterwards (the sort is in place; with a search term
\* the sort works on the new, filtered list).
Render(value, search, limit) ==
    LET raises == FilterRaises(value, search) \/ SortRaises(Filtered(value, search))
    IN  [result |-> IF raises
                    THEN Caught(RenderError(value, search))
                    ELSE Listing(SortByPrice(Filtered(value, search).entries), limit),
         object |-> IF search = <<>> /\ ~SortRaises(value)
                    THEN ListValue(SortByPrice(value.entries))
                    ELSE value]

\* the expiry without the TTL
NewExpiryNow(t) == t

\* model_cache["expiry"] = time.time() + MODEL_CACHE_TTL_SECONDS
NewExpiry(t) == t + MODEL_CACHE_TTL_SECONDS

\* the expiry written without the entries
CacheAfterExpiryOnly(cache, resp, object, t) ==
    IF resp.kind = "no_data" THEN cache
    ELSE [cache EXCEPT !.expiry = NewExpiry(t)]

\* the cache update without the check for the "data" key
CacheAfterUnchecked(cache, resp, object, t) == [models |-> object, expiry |-> t + MODEL_CACHE_TTL_SECONDS]

\* `if "data" not in data` and the two statements that update the cache:
\* the cache after a 200 response whose body is a JSON object
CacheAfter(cache, resp, object, t) ==
    IF resp.kind = "no_data" THEN cache
    ELSE [models |-> object, expiry |-> NewExpiry(t)]

\* list_models up to its first suspension: the credential check, the cache
\* check, and either the whole cached path or the issue of the GET.
ListModelsCall(p, limit, search) ==
    /\ lm[p].pc = "idle"
    /\ UNCHANGED <<now, configVars, chatVars>>
    /\ IF ~API_KEY
       THEN /\ last' = Returned("no_key", "none", NullValue, search,
                          ErrorResult("Error: OPENROUTER_API_KEY is not set."), now)
            /\ UNCHANGED <<model_cache, fetchCount, lm, refreshedAt, stored>>
       ELSE IF CacheFresh(now, model_cache)
       THEN LET r == Render(model_cache.models, search, limit)
            IN  /\ last' = Returned("cached", "none", NullValue, search, r.result, now)
                /\ model_cache' = [model_cache EXCEPT !.models = r.object]
                /\ UNCHANGED <<fetchCount, lm, refreshedAt, stored>>
       ELSE /\ fetchCount < MaxFetches
            /\ lm' = [lm EXCEPT ![p] = [pc |-> "awaiting", limit |-> limit, search |-> search]]
            /\ fetchCount' = fetchCount + 1
            /\ UNCHANGED <<model_cache, last, refreshedAt, stored>>

\* a failure answered with the stale entries when the cache has some
FailureResultStale(resp) ==
    IF model_cache.models.entries # <<>> /\ ~SortRaises(model_cache.models)
    THEN Listing(SortByPrice(model_cache.models.entries), 10)
    ELSE ErrorResult("An unexpected error occurred while fetching models.")

\* what list_models returns when the GET fails, the status is an error or
\* the body has no "data" key
FailureResult(resp) ==
    IF resp.kind = "status_error" THEN Caught("HTTPStatusError")
    ELSE IF resp.kind = "no_data" THEN ErrorResult("Error: Invalid response from OpenRouter API.")
    ELSE IF resp.kind = "network_error" THEN Caught("RequestError")
    ELSE Caught("JSONDecodeError")

\* list_models from the completion of `await http_client.get(...)` to its
\* return.
ListModelsReturn(p, resp) ==
    /\ lm[p].pc = "awaiting"
    /\ UNCHANGED <<now, fetchCount, configVars, chatVars>>
    /\ lm' = [lm EXCEPT ![p] = IdleReader]
    /\ IF resp.kind \in {"network_error", "status_error", "not_json"}
       THEN /\ last' = Returned("fetched", resp.kind, NullValue, lm[p].search,
                                FailureResult(resp), now)
            /\ UNCHANGED <<model_cache, refreshedAt, stored>>
       ELSE IF resp.kind = "no_data"
       THEN /\ last' = Returned("fetched", resp.kind, NullValue, lm[p].search,
                                FailureResult(resp), now)
            /\ model_cache' = CacheAfter(model_cache, resp, NullValue, now)
            /\ UNCHANGED <<refreshedAt, stored>>
       ELSE LET r == Render(resp.data, lm[p].search, lm[p].limit)
            IN  /\ last' = Returned("fetched", resp.kind, resp.data, lm[p].search, r.result, now)
                /\ model_cache' = CacheAfter(model_cache, resp, r.object, now)
                /\ refreshedAt' = IF resp.data.type = "list" THEN now ELSE refreshedAt
                /\ stored' = Stored(resp.data, now)

\* the clock advances
Tick(d) ==
    /\ now + d <= MaxTime
    /\ now' = now + d
    /\ UNCHANGED <<catalogVars, configVars, chatVars>>

(* --------------------------- configuration ---------------------------- *)
\* AUTO_MODEL_PRIORITY
AUTO_MODEL_PRIORITY == <<"llama-free", "deepseek-free", "gemma-free", "stepfun-free">>
VisionAlias == "gemini"

AliasLabels == {"llama-free", "deepseek-free", "gemma-free", "stepfun-free", "gemini", "other"}
AliasTarget ==
    [a \in AliasLabels |->
        CASE a = "llama-free"    -> "meta-llama/llama-3-8b:free"
          [] a = "deepseek-free" -> "deepseek/deepseek-coder-v2-lite"
          [] a = "gemma-free"    -> "google/gemma-2-9b-it:free"
          [] a = "stepfun-free"  -> "stepfun/step-3.5-flash:free"
          [] a = "gemini"        -> "google/gemini-pro-vision"
          [] OTHER               -> "vendor/other"]
AliasTables == { [a \in S |-> AliasTarget[a]] : S \in SUBSET AliasLabels }
DefaultModels == {"google/gemini-2.0-flash-lite-001", "meta-llama/llama-3-8b:free"}

(* -------------------------- try_chat_request -------------------------- *)
\* An optional string field of a delta: absent, or a text (a sequence of
\* characters, <<>> the empty string).
Absent == [has |-> FALSE, text |-> <<>>]
Text(t) == [has |-> TRUE, text |-> t]

\* A line of the response body: whether it starts with "data: ", and what
\* follows the prefix.
\*   "done"          [DONE]
\*   "bad_json"      json.loads raises JSONDecodeError
\*   "empty_choices" {"choices": []}: IndexError
\*   "non_object"    JSON that is not an object (or whose first choice or
\*                   delta is none): AttributeError or TypeError
\*   "number"        a delta whose content is a non-zero number
\*   "chunk"         a delta with optional content and reasoning strings
Line(data, kind, content, reasoning) ==
    [data |-> data, kind |-> kind, content |-> content, reasoning |-> reasoning]
DoneLine == Line(TRUE, "done", Absent, Absent)
ChunkLine(content, reasoning) == Line(TRUE, "chunk", content, reasoning)
OtherLine(kind) == Line(TRUE, kind, Absent, Absent)
CommentLine == Line(FALSE, "chunk", Text(<<"x">>), Absent)

\* What the chat POST can come back with: no response at all (status 0) and
\* the exception raised instead, a status other than 200, or a 200 whose
\* body delivers `lines` and then ends ("eof") or raises ("timeout",
\* "error") unless the reader has stopped reading before.
ConnectFailure(e) == [status |-> 0, lines |-> <<>>, end |-> e]
StatusResponse(code) == [status |-> code, lines |-> <<>>, end |-> "eof"]
Stream(lines, end) == [status |-> 200, lines |-> lines, end |-> end]

\* the POST still in flight
NoResponse == [status |-> -1, lines |-> <<>>, end |-> "none"]

\* reasoning used only when the delta has no content key
ContributionIfAbsent(line) ==
    IF line.content.has THEN line.content.text
    ELSE IF line.reasoning.has THEN line.reasoning.text
    ELSE <<>>

\* content = delta.get("content") or delta.get("reasoning")
Contribution(line) ==
    IF line.content.has /\ line.content.text # <<>> THEN line.content.text
    ELSE IF line.reasoning.has THEN line.reasoning.text
    ELSE <<>>

\* The `async for` loop over the lines: how it ends ("done" at [DONE], "eof"
\* after the last line, "raised" when a line raises what the inner except
\* does not catch), the text accumulated and whether full_response holds a
\* value that "".join rejects.
RECURSIVE Aggregate(_, _, _)
Aggregate(lines, acc, bad) ==
    IF lines = <<>> THEN [how |-> "eof", text |-> acc, bad |-> bad]
    ELSE LET line == Head(lines)
             rest == Tail(lines)
         IN  IF ~line.data THEN Aggregate(rest, acc, bad)
             ELSE IF line.kind = "done" THEN [how |-> "done", text |-> acc, bad |-> bad]
             ELSE IF line.kind \in {"bad_json", "empty_choices"} THEN Aggregate(rest, acc, bad)
             ELSE IF line.kind = "non_object" THEN [how |-> "raised", text |-> acc, bad |-> bad]
             ELSE IF line.kind = "number" THEN Aggregate(rest, acc, TRUE)
             ELSE Aggregate(rest, acc \o Contribution(line), bad)

NoText == [some |-> FALSE, text |-> <<>>]
SomeText(t) == [some |-> TRUE, text |-> t]
Success(t) == [content |-> SomeText(t), error |-> "None"]
Failure(e) == [content |-> NoText, error |-> e]

ApiError(code) == IF code = 429 THEN "API Error 429." ELSE "API Error 500."
TimedOut == "Request timed out."
Unexpected == "An unexpected error occurred."
Raised(e) == IF e = "timeout" THEN Failure(TimedOut) ELSE Failure(Unexpected)

\* a body that breaks off returned as a success with the text read so far
TryChatRequestPartial(resp) ==
    IF resp.status = 0 THEN Raised(resp.end)
    ELSE IF resp.status # 200 THEN Failure(ApiError(resp.status))
    ELSE LET a == Aggregate(resp.lines, <<>>, FALSE)
         IN  IF a.how = "raised" \/ a.bad THEN Failure(Unexpected)
             ELSE Success(a.text)

\* try_chat_request(model, messages), on the response its POST receives:
\* the pair (content, error) it returns
TryChatRequest(resp) ==
    IF resp.status = 0 THEN Raised(resp.end)
    ELSE IF resp.status # 200 THEN Failure(ApiError(resp.status))
    ELSE LET a == Aggregate(resp.lines, <<>>, FALSE)
         IN  IF a.how = "raised" THEN Failure(Unexpected)
             ELSE IF a.how = "eof" /\ resp.end # "eof" THEN Raised(resp.end)
             ELSE IF a.bad THEN Failure(Unexpected)
             ELSE Success(a.text)

(* -------------------------- chat_completion --------------------------- *)
\* The image_url argument: None, "", or a URL with its scheme and the
\* dot-separated labels of its host name.
NoUrl == [kind |-> "none", scheme |-> "", host |-> <<>>]
EmptyUrl == [kind |-> "empty", scheme |-> "", host |-> <<>>]
Url(scheme, host) == [kind |-> "url", scheme |-> scheme, host |-> host]
ImageUrls ==
    { NoUrl, EmptyUrl,
      Url("https", <<"example", "com">>),
      Url("ftp", <<"example", "com">>),
      Url("https", <<"localhost">>),
      Url("http", <<"192", "168", "1", "10">>) }

\* the truth value of the argument: None and "" are falsy
Truthy(url) == url.kind = "url"

\* every non-empty URL accepted
ValidateAnyUrl(url) == Truthy(url)

\* validate_image_url(url)
validate_image_url(url) ==
    IF ~Truthy(url) THEN FALSE
    ELSE IF url.scheme \notin {"http", "https"} THEN FALSE
    ELSE IF \/ url.host \in {<<"localhost">>, <<"127", "0", "0", "1">>}
            \/ (Len(url.host) >= 3 /\ url.host[1] = "192" /\ url.host[2] = "168")
         THEN FALSE
    ELSE TRUE

\* The model argument ("" stands for None and for "") and str.lower() on the
\* selectors of the model.
Selectors == {"", "llama-free", "GEMINI", "vendor/unlisted"}
LowerName(name) == IF name = "GEMINI" THEN "gemini" ELSE name

\* a selector that is no alias passed on as a model id
ResolveLiteral(model_name) ==
    IF model_name = "" THEN DEFAULT_MODEL
    ELSE IF LowerName(model_name) \in DOMAIN MODEL_ALIASES
              /\ MODEL_ALIASES[LowerName(model_name)] # ""
         THEN MODEL_ALIASES[LowerName(model_name)]
    ELSE model_name

\* the table looked up with the selector as written, not lower-cased
ResolveCaseSensitive(model_name) ==
    IF model_name = "" THEN DEFAULT_MODEL
    ELSE IF model_name \in DOMAIN MODEL_ALIASES /\ MODEL_ALIASES[model_name] # ""
         THEN MODEL_ALIASES[model_name]
    ELSE DEFAULT_MODEL

\* resolve_model(model_name)
resolve_model(model_name) ==
    IF model_name = "" THEN DEFAULT_MODEL
    ELSE IF LowerName(model_name) \in DOMAIN MODEL_ALIASES
              /\ MODEL_ALIASES[LowerName(model_name)] # ""
         THEN MODEL_ALIASES[LowerName(model_name)]
    ELSE DEFAULT_MODEL

InList(x, s) == \E i \in 1..Len(s) : s[i] = x

\* the vision alias put last instead of first
CandidateAliasesAppend(image_present) ==
    IF image_present /\ ~InList(VisionAlias, AUTO_MODEL_PRIORITY)
    THEN AUTO_MODEL_PRIORITY \o <<VisionAlias>>
    ELSE AUTO_MODEL_PRIORITY

\* candidate_aliases: the priority list, with the vision alias put first
\* when an image is present and the list does not name it already
CandidateAliases(image_present) ==
    IF image_present /\ ~InList(VisionAlias, AUTO_MODEL_PRIORITY)
    THEN <<VisionAlias>> \o AUTO_MODEL_PRIORITY
    ELSE AUTO_MODEL_PRIORITY

Candidate(label, model) == [label |-> label, model |-> model]

\* the default left out when an alias already maps to it
CandidatesDefaultOnce(image_present) ==
    LET known == SelectSeq(CandidateAliases(image_present),
                           LAMBDA a : a \in DOMAIN MODEL_ALIASES)
        listed == [i \in 1..Len(known) |-> Candidate(known[i], MODEL_ALIASES[known[i]])]
    IN  IF \E i \in 1..Len(listed) : listed[i].model = DEFAULT_MODEL
        THEN listed
        ELSE listed \o <<Candidate("default", DEFAULT_MODEL)>>

\* every alias listed twice, for a second try
CandidatesRetried(image_present) ==
    LET known == SelectSeq(CandidateAliases(image_present),
                           LAMBDA a : a \in DOMAIN MODEL_ALIASES)
        listed == [i \in 1..Len(known) |-> Candidate(known[i], MODEL_ALIASES[known[i]])]
    IN  listed \o listed \o <<Candidate("default", DEFAULT_MODEL)>>

\* get_candidates_for_auto_mode(image_present)
get_candidates_for_auto_mode(image_present) ==
    LET known == SelectSeq(CandidateAliases(image_present),
                           LAMBDA a : a \in DOMAIN MODEL_ALIASES)
    IN  [i \in 1..Len(known) |-> Candidate(known[i], MODEL_ALIASES[known[i]])]
        \o <<Candidate("default", DEFAULT_MODEL)>>

\* image_url is not None
ImagePresent(url) == url.kind # "none"

\* the messages list: an optional system message, then the user message,
\* whose content is the prompt alone or the prompt and the image
Messages(prompt, image_url, system_prompt) ==
    (IF system_prompt # "" THEN <<[role |-> "system", text |-> system_prompt, image |-> NoUrl]>>
     ELSE <<>>)
    \o <<[role |-> "user", text |-> prompt,
          image |-> IF Truthy(image_url) THEN image_url ELSE NoUrl]>>

Prompts == {"", "hi"}
SystemPrompts == {"", "be brief"}

ChatResult(kind, label, text, error) ==
    [kind |-> kind, label |-> label, text |-> text, error |-> error]
ChatError(e) == ChatResult("error", "", <<>>, e)
\* the arguments of the invocation
Args(model, prompt, image_url, system_prompt) ==
    [model |-> model, prompt |-> prompt, image_url |-> image_url,
     system_prompt |-> system_prompt]
IdleChat ==
    [pc |-> "idle", mode |-> "none", args |-> Args("", "", NoUrl, ""),
     image_present |-> FALSE, candidates |-> <<>>,
     idx |-> 0, last_error |-> "", messages |-> <<>>, result |-> ChatResult("none", "", <<>>, "")]

\* a chat POST: the candidate it is for, the model it names and the
\* (content, error) it came back with, Pending while in flight
Probe(label, model, outcome) ==
    [label |-> label, model |-> model, outcome |-> outcome, resp |-> NoResponse]
Pending == [content |-> NoText, error |-> "pending"]

\* the first error kept instead of the last
LastErrorFirst(previous, error) ==
    IF previous = "No models available or all failed." THEN error ELSE previous

\* last_error = error
LastError(previous, error) == error

\* a walk that no success ends
EndsWalkNever(r) == FALSE
\* a walk that only a non-empty text ends
EndsWalkNonEmpty(r) == r.content.some /\ r.content.text # <<>>

\* `if content is not None`: TRUE ends the walk
EndsWalk(r) == r.content.some

\* `content or error`: an empty text taken for no text
SelectorResultOr(r) ==
    IF r.content.some /\ r.content.text # <<>>
    THEN ChatResult("text", "", r.content.text, "")
    ELSE ChatError(r.error)

\* return content if content is not None else error
SelectorResult(r) ==
    IF r.content.some THEN ChatResult("text", "", r.content.text, "")
    ELSE ChatError(r.error)

\* chat_completion up to its first suspension: the three checks, the
\* messages, and the first `await try_chat_request(...)`.
ChatCall(model, prompt, image_url, system_prompt) ==
    /\ chat.pc = "idle"
    /\ UNCHANGED <<now, catalogVars, configVars>>
    /\ LET args == Args(model, prompt, image_url, system_prompt) IN
       IF ~API_KEY
       THEN /\ chat' = [IdleChat EXCEPT !.pc = "done", !.args = args,
                          !.result = ChatError("Error: OPENROUTER_API_KEY is not set.")]
            /\ probes' = <<>>
       ELSE IF prompt = "" /\ ~Truthy(image_url)
       THEN /\ chat' = [IdleChat EXCEPT !.pc = "done", !.args = args,
                          !.result = ChatError("Error: Prompt cannot be empty without an image.")]
            /\ probes' = <<>>
       ELSE IF Truthy(image_url) /\ ~validate_image_url(image_url)
       THEN /\ chat' = [IdleChat EXCEPT !.pc = "done", !.args = args,
                          !.result = ChatError("Error: Invalid or disallowed image URL.")]
            /\ probes' = <<>>
       ELSE IF model # ""
       THEN /\ chat' = [IdleChat EXCEPT !.pc = "awaiting", !.mode = "selector", !.args = args,
                          !.messages = Messages(prompt, image_url, system_prompt)]
            /\ probes' = <<Probe("selector", resolve_model(model), Pending)>>
       ELSE LET candidates == get_candidates_for_auto_mode(ImagePresent(image_url))
            IN  /\ chat' = [IdleChat EXCEPT !.pc = "awaiting", !.mode = "auto", !.args = args,
                              !.image_present = ImagePresent(image_url),
                              !.candidates = candidates, !.idx = 1,
                              !.last_error = "No models available or all failed.",
                              !.messages = Messages(prompt, image_url, system_prompt)]
                /\ probes' = <<Probe(candidates[1].label, candidates[1].model, Pending)>>

\* chat_completion from the completion of `await try_chat_request(...)` to
\* its next suspension or its return.
ChatResponse(resp) ==
    /\ chat.pc = "awaiting"
    /\ UNCHANGED <<now, catalogVars, configVars>>
    /\ LET r == TryChatRequest(resp)
           n == Len(probes)
           logged == [probes EXCEPT ![n].outcome = r, ![n].resp = resp]
       IN  IF chat.mode = "selector"
           THEN /\ chat' = [chat EXCEPT !.pc = "done",
                              !.result = SelectorResult(r)]
                /\ probes' = logged
           ELSE IF EndsWalk(r)
           THEN /\ chat' = [chat EXCEPT !.pc = "done",
                              !.result = ChatResult("auto", chat.candidates[chat.idx].label,
                                                    r.content.text, "")]
                /\ probes' = logged
           ELSE IF chat.idx < Len(chat.candidates)
           THEN LET next == chat.candidates[chat.idx + 1]
                IN  /\ chat' = [chat EXCEPT !.idx = chat.idx + 1,
                                  !.last_error = LastError(chat.last_error, r.error)]
                    /\ probes' = Append(logged, Probe(next.label, next.model, Pending))
           ELSE /\ chat' = [chat EXCEPT !.pc = "done",
                              !.last_error = LastError(chat.last_error, r.error),
                              !.result = ChatResult("failed", "", <<>>,
                                                    LastError(chat.last_error, r.error))]
                /\ probes' = logged

\* the responses the model's upstream gives to a chat POST
ChatResponses ==
    { ConnectFailure("timeout"),
      StatusResponse(429),
      Stream(<<OtherLine("non_object")>>, "eof"),
      Stream(<<ChunkLine(Text(<<"H">>), Absent)>>, "timeout"),
      Stream(<<ChunkLine(Text(<<"H">>), Absent), ChunkLine(Text(<<"i">>), Absent), DoneLine>>, "eof"),
      Stream(<<>>, "eof") }

InitConfig ==
    /\ API_KEY \in BOOLEAN
    /\ MODEL_ALIASES \in AliasTables
    /\ DEFAULT_MODEL \in DefaultModels

InitIdle ==
    /\ now = StartTime
    /\ model_cache = [models |-> ListValue(<<>>), expiry |-> 0]
    /\ lm = [p \in Readers |-> IdleReader]
    /\ last = NoReturn
    /\ fetchCount = 0
    /\ refreshedAt = -1
    /\ stored = NeverStored
    /\ chat = IdleChat
    /\ probes = <<>>

Init == InitConfig /\ InitIdle

\* the alias tables of the catalogue specification: none, and the one of
\* tests/test_server.py
CatalogAliasTables ==
    { [a \in S |-> AliasTarget[a]] : S \in {{}, {"llama-free", "deepseek-free", "gemini"}} }

InitCatalog ==
    /\ InitIdle
    /\ API_KEY \in BOOLEAN
    /\ MODEL_ALIASES \in CatalogAliasTables
    /\ DEFAULT_MODEL = "google/gemini-2.0-flash-lite-001"

NextCatalog ==
    \/ \E p \in Readers, limit \in Limits, search \in Searches : ListModelsCall(p, limit, search)
    \/ \E p \in Readers, resp \in CatalogResponses : ListModelsReturn(p, resp)
    \/ \E d \in TickSteps : Tick(d)

SpecCatalog == InitCatalog /\ [][NextCatalog]_vars

NextChat ==
    \/ \E model \in Selectors, prompt \in Prompts, image_url \in ImageUrls,
          system_prompt \in SystemPrompts : ChatCall(model, prompt, image_url, system_prompt)
    \/ \E resp \in ChatResponses : ChatResponse(resp)

SpecChat == Init /\ [][NextChat]_vars

(* ----------------- one chat request, every short body ----------------- *)
\* longest body, in lines, of a streamed response
MaxLines == 3

\* the lines a body is made of
StreamLines ==
    { CommentLine,
      DoneLine,
      ChunkLine(Text(<<"H">>), Absent),
      ChunkLine(Text(<<"i">>), Absent),
      ChunkLine(Absent, Text(<<"r">>)),
      ChunkLine(Text(<<>>), Text(<<"r">>)),
      ChunkLine(Absent, Absent),
      OtherLine("bad_json"),
      OtherLine("empty_choices"),
      OtherLine("non_object"),
      OtherLine("number") }
StreamEnds == {"eof", "timeout", "error"}

\* every response to one chat POST: no response, an error status, or a 200
\* with a body of at most MaxLines lines and each way of ending
StreamResponses ==
    { ConnectFailure("timeout"), ConnectFailure("error"),
      StatusResponse(429), StatusResponse(500) }
    \cup { Stream(lines, end) : lines \in SeqsUpTo(StreamLines, MaxLines), end \in StreamEnds }

\* with no alias in the table auto mode has the default as only candidate,
\* so each invocation makes one request, in selector or in auto mode
InitStream ==
    /\ InitIdle
    /\ API_KEY = TRUE
    /\ MODEL_ALIASES = [a \in {} |-> ""]
    /\ DEFAULT_MODEL = "google/gemini-2.0-flash-lite-001"

NextStream ==
    \/ \E model \in {"", "vendor/unlisted"} : ChatCall(model, "hi", NoUrl, "")
    \/ /\ chat.pc = "awaiting"
       /\ \E resp \in StreamResponses : ChatResponse(resp)

SpecStream == InitStream /\ [][NextStream]_vars

(* ------------------------ selector resolution ------------------------ *)
\* alias tables that can also map an alias to the empty string, which the
\* loader keeps like any other string
ResolveTables ==
    { [a \in S |-> IF a = "blank" THEN "" ELSE AliasTarget[a]] :
        S \in SUBSET {"llama-free", "gemini", "blank"} }
ResolveSelectors == Selectors \cup {"gemini", "blank"}

InitResolve ==
    /\ InitIdle
    /\ API_KEY = TRUE
    /\ MODEL_ALIASES \in ResolveTables
    /\ DEFAULT_MODEL \in DefaultModels

NextResolve ==
    \/ \E model \in ResolveSelectors : ChatCall(model, "hi", NoUrl, "")
    \/ /\ chat.pc = "awaiting"
       /\ \E resp \in ChatResponses : ChatResponse(resp)

SpecResolve == InitResolve /\ [][NextResolve]_vars

(* ------------------- the walk, with requests that end ----------------- *)
\* a request fails, is refused, or succeeds
WalkResponses ==
    { ConnectFailure("timeout"),
      StatusResponse(429),
      Stream(<<ChunkLine(Text(<<"H">>), Absent), DoneLine>>, "eof") }

InitWalk ==
    /\ InitIdle
    /\ API_KEY = TRUE
    /\ MODEL_ALIASES \in AliasTables
    /\ DEFAULT_MODEL = "google/gemini-2.0-flash-lite-001"

\* the request in flight comes back
WalkReturns ==
    /\ chat.pc = "awaiting"
    /\ \E resp \in WalkResponses : ChatResponse(resp)

NextWalk ==
    \/ \E model \in {"", "llama-free"}, image_url \in {NoUrl, Url("https", <<"example", "com">>)} :
          ChatCall(model, "hi", image_url, "")
    \/ WalkReturns

\* every request ends: the client is built with timeout=REQUEST_TIMEOUT, so
\* a request that gets no answer ends as a timeout
SpecWalk == InitWalk /\ [][NextWalk]_vars /\ WF_vars(WalkReturns)

(* ------------------------- the two tools ------------------------------ *)
\* list_models and chat_completion share no state, so a behaviour follows
\* one of them: one list_models caller, or one chat request with every
\* short body
NextTools ==
    \/ /\ chat.pc = "idle"
       /\ \/ \E limit \in Limits, search \in Searches : ListModelsCall("r1", limit, search)
          \/ \E resp \in CatalogResponses : ListModelsReturn("r1", resp)
          \/ \E d \in TickSteps : Tick(d)
    \/ /\ now = StartTime /\ fetchCount = 0
       /\ NextStream

SpecTools == InitStream /\ [][NextTools]_vars

(* ======================= the catalogue cache ========================== *)
TTL == 300
FailedFetches == {"network_error", "status_error", "no_data"}

\* the entries of a list-valued `data`, as a bag
RECURSIVE BagOf(_)
BagOf(seq) ==
    IF seq = <<>> THEN [e \in {} |-> 0]
    ELSE LET rest == BagOf(Tail(seq))
             e == Head(seq)
         IN  [x \in DOMAIN rest \cup {e} |->
                 (IF x \in DOMAIN rest THEN rest[x] ELSE 0) + (IF x = e THEN 1 ELSE 0)]

\* a reader's GET came back in this step
FetchReturns == \E p \in Readers : lm[p].pc = "awaiting" /\ lm'[p].pc = "idle"
\* a reader issued a GET in this step
FetchIssued == \E p \in Readers : lm[p].pc = "idle" /\ lm'[p].pc = "awaiting"

\* C1: a list_models call made while now < expiry issues no catalogue
\* request, and from a successful fetch until 300 s later the cache stays
\* unexpired, so every call in that interval is served from the cache and
\* the fetch remains the only one.
C1_NoFetchWithinTtl ==
    /\ [][now < model_cache.expiry => fetchCount' = fetchCount]_vars
    /\ [](refreshedAt >= 0 /\ now < refreshedAt + TTL => now < model_cache.expiry)

\* a second read, 150 s after the one that fetched, was served from the cache
C1_Witness ==
    /\ last.path = "cached"
    /\ last.result.kind = "listing"
    /\ last.result.found = 2
    /\ refreshedAt >= 0
    /\ last.at > refreshedAt
    /\ fetchCount = 1

\* C2: a list_models call made when now >= expiry issues exactly one
\* catalogue request (and no request is issued any other way); when the
\* fetch succeeds the cache holds the fetched entries, none lost or added,
\* and expiry is the time of the update plus 300 s when the call returns.
C2_ExpiredReadFetchesOnce ==
    /\ [][fetchCount' # fetchCount <=> FetchIssued]_vars
    /\ [][FetchIssued => now >= model_cache.expiry /\ fetchCount' = fetchCount + 1]_vars
    /\ [][last' # last /\ last'.path = "cached" => now < model_cache.expiry]_vars
    /\ [](last.path = "fetched" /\ last.resp = "ok" /\ last.data.type = "list"
            => /\ model_cache.expiry = last.at + TTL
               /\ model_cache.models.type = "list"
               /\ BagOf(model_cache.models.entries) = BagOf(last.data.entries))

\* a read after the expiry of an earlier fetch fetched again and reset expiry
C2_Witness ==
    /\ last.path = "fetched"
    /\ last.resp = "ok"
    /\ Len(last.data.entries) = 2
    /\ fetchCount = 2
    /\ last.at >= StartTime + TTL
    /\ model_cache.expiry = last.at + TTL

\* C3: a catalogue fetch that fails (network error, error status, no
\* `data` key) leaves the cached entries and the expiry as they were.
C3_FailedFetchKeepsCache ==
    [][FetchReturns /\ last'.resp \in FailedFetches => model_cache' = model_cache]_vars

\* a fetch failed at a time when an earlier fetch had filled the cache
C3_Witness ==
    /\ last.path = "fetched"
    /\ last.resp = "no_data"
    /\ refreshedAt >= 0
    /\ model_cache.expiry = refreshedAt + TTL
    /\ now >= model_cache.expiry
    /\ Len(model_cache.models.entries) = 2

\* C4: a response whose `data` is not a list is a failed fetch: the call
\* reports an error and the response reaches neither the cached entries nor
\* the expiry.
C4_WrongTypeIsFailedFetch ==
    [][FetchReturns /\ last'.resp = "ok" /\ last'.data.type # "list"
         => last'.result.kind = "error" /\ model_cache' = model_cache]_vars

\* C5 as stated: when the fetch fails and an earlier fetch has filled the
\* cache, the call returns a listing of the stale entries, not an error.
C5_StaleFallback ==
    last.path = "fetched" /\ last.resp \in FailedFetches /\ refreshedAt >= 0
        => last.result.kind = "listing"

\* C5, amended: when the fetch fails, the call returns an error whether or
\* not an earlier fetch has filled the cache; the stale entries stay in the
\* cache and are not returned.
C5_FailedFetchReturnsError ==
    last.path = "fetched" /\ last.resp \in FailedFetches
        => last.result.kind = "error" /\ last.result.shown = <<>>

\* a fetch failed while the cache held the entries of an earlier fetch
C5_Witness ==
    /\ last.path = "fetched"
    /\ last.resp = "status_error"
    /\ last.result.kind = "error"
    /\ refreshedAt >= 0
    /\ Len(model_cache.models.entries) >= 1

(* ========================= the auto-mode walk ========================= *)
Failed(outcome) == ~outcome.content.some /\ outcome.error # "pending"
Succeeded(outcome) == outcome.content.some
AutoDone == chat.mode = "auto" /\ chat.pc = "done"

\* C6: in auto mode the requests go to the candidates in list order, one
\* request per position; a request is issued only when every earlier one
\* has completed with a failure, and none is issued after a success.
C6_SequentialInOrder ==
    chat.mode = "auto" =>
        /\ Len(probes) >= 1
        /\ Len(probes) <= Len(chat.candidates)
        /\ \A i \in 1..Len(probes) :
              /\ probes[i].label = chat.candidates[i].label
              /\ probes[i].model = chat.candidates[i].model
        /\ \A i \in 1..(Len(probes) - 1) : Failed(probes[i].outcome)
        /\ (chat.pc = "awaiting" <=> probes[Len(probes)].outcome = Pending)
        /\ (Succeeded(probes[Len(probes)].outcome) => chat.pc = "done")

\* the third candidate succeeded after two failures, and the list has more
C6_Witness ==
    /\ AutoDone
    /\ Len(probes) = 3
    /\ Len(chat.candidates) >= 5
    /\ Succeeded(probes[3].outcome)

\* C7 as stated: only a non-empty text ends the walk, so the text returned
\* for the selected candidate is never empty.
C7_EmptyTextDoesNotEnd ==
    AutoDone /\ chat.result.kind = "auto" => chat.result.text # <<>>

\* C7, amended: the walk is ended by the first candidate, in order, whose
\* request returns a success, whatever its text: the result is that
\* candidate's text under that candidate's label, and a success with an
\* empty text ends the walk like any other.
C7_FirstSuccessEnds ==
    AutoDone =>
        /\ chat.result.kind = "auto" <=> Succeeded(probes[Len(probes)].outcome)
        /\ chat.result.kind = "auto" =>
              /\ chat.result.text = probes[Len(probes)].outcome.content.text
              /\ chat.result.label = probes[Len(probes)].label
              /\ chat.result.label = chat.candidates[Len(probes)].label
              /\ \A i \in 1..(Len(probes) - 1) : ~Succeeded(probes[i].outcome)

\* the second candidate answered with an empty text and was selected
C7_Witness ==
    /\ AutoDone
    /\ chat.result.kind = "auto"
    /\ chat.result.text = <<>>
    /\ Len(probes) = 2
    /\ Len(chat.candidates) >= 3

Rank(label) ==
    CASE label = "gemini"        -> 0
      [] label = "llama-free"    -> 1
      [] label = "deepseek-free" -> 2
      [] label = "gemma-free"    -> 3
      [] label = "stepfun-free"  -> 4
      [] OTHER                   -> 5

\* C9: the candidate list holds only priority labels that are keys of the
\* alias table, each with the model the table gives it, in priority order,
\* and ends with ("default", default model) whether or not an alias maps to
\* the default model; it is never empty, and the default is requested only
\* after every other candidate has failed.
C9_DefaultLast ==
    chat.mode = "auto" =>
        LET c == chat.candidates
            n == Len(c)
        IN  /\ n >= 1
            /\ c[n] = [label |-> "default", model |-> DEFAULT_MODEL]
            /\ \A i \in 1..(n - 1) :
                  /\ c[i].label \in DOMAIN MODEL_ALIASES
                  /\ Rank(c[i].label) <= 4
                  /\ c[i].model = MODEL_ALIASES[c[i].label]
            /\ \A i, j \in 1..(n - 1) : i < j => Rank(c[i].label) < Rank(c[j].label)
            /\ \A i \in 1..Len(probes) :
                  probes[i].label = "default"
                      => i = n /\ \A j \in 1..(n - 1) : Failed(probes[j].outcome)

\* the default was requested last although an alias maps to the same model
C9_Witness ==
    /\ chat.mode = "auto"
    /\ Len(chat.candidates) >= 3
    /\ Len(probes) = Len(chat.candidates)
    /\ probes[Len(probes)].label = "default"
    /\ \E i \in 1..(Len(probes) - 1) : probes[i].model = DEFAULT_MODEL

\* C10: when every candidate fails the walk has requested every candidate
\* and the result is a failure that carries the error of the last request.
C10_LastErrorReported ==
    AutoDone /\ Failed(probes[Len(probes)].outcome) =>
        /\ Len(probes) = Len(chat.candidates)
        /\ \A i \in 1..Len(probes) : Failed(probes[i].outcome)
        /\ chat.result.kind = "failed"
        /\ chat.result.error = probes[Len(probes)].outcome.error

\* every candidate failed, the first and the last with different errors
C10_Witness ==
    /\ AutoDone
    /\ chat.result.kind = "failed"
    /\ Len(probes) >= 3
    /\ probes[1].outcome.error # probes[Len(probes)].outcome.error
    /\ chat.result.error = "Request timed out."

(* ========================= one chat request =========================== *)
\* the probes whose POST has come back
Completed == { i \in 1..Len(probes) : probes[i].outcome # Pending }

IsDone(line) == line.data /\ line.kind = "done"
HasDone(lines) == \E i \in 1..Len(lines) : IsDone(lines[i])

\* the lines before the first [DONE] data line, all of them when there is none
RECURSIVE UpToDone(_)
UpToDone(lines) ==
    IF lines = <<>> \/ IsDone(Head(lines)) THEN <<>>
    ELSE <<Head(lines)>> \o UpToDone(Tail(lines))

\* the contributions of the data lines that carry a delta, joined in order
RECURSIVE Joined(_)
Joined(lines) ==
    IF lines = <<>> THEN <<>>
    ELSE (IF Head(lines).data /\ Head(lines).kind = "chunk"
          THEN Contribution(Head(lines)) ELSE <<>>)
         \o Joined(Tail(lines))

\* the body is read without a failure of the transport: it ends, or a
\* [DONE] line stops the reading before the failure
ReadThrough(resp) == resp.status = 200 /\ (resp.end = "eof" \/ HasDone(resp.lines))

\* C11: for every line sequence of a 200 response the request returns, as a
\* success, the contributions of the data lines before the first [DONE]
\* joined in stream order; lines without the prefix and lines after [DONE]
\* add nothing.
C11_ConcatenationUpToDone ==
    \A i \in Completed :
        ReadThrough(probes[i].resp)
            => probes[i].outcome = Success(Joined(UpToDone(probes[i].resp.lines)))

\* the lines that make the loop raise what its inner except does not catch
Fatal(line) == line.data /\ line.kind \in {"non_object", "number"}

\* a data line that is neither [DONE] nor a JSON object carrying a delta
\* with string fields
Malformed(line) ==
    line.data /\ line.kind \in {"bad_json", "empty_choices", "non_object", "number"}

\* C12: a data line that is not a well-formed JSON object chunk is skipped
\* and never fatal: the request succeeds with the contributions of the
\* lines before and after it.
C12_MalformedLineSkipped ==
    \A i \in Completed :
        LET read == UpToDone(probes[i].resp.lines)
        IN  ReadThrough(probes[i].resp) /\ (\E k \in 1..Len(read) : Malformed(read[k]))
               => /\ Succeeded(probes[i].outcome)
                  /\ probes[i].outcome.content.text
                        = Joined(SelectSeq(read, LAMBDA line : ~Malformed(line)))

\* the transport fails while the request is in progress: no response comes,
\* or the body breaks off before a [DONE] line has stopped the reading
TransportFails(resp) ==
    /\ resp.end # "eof"
    /\ resp.status = 0 \/ (resp.status = 200 /\ ~HasDone(resp.lines))

\* C13: a timeout or connection failure at any point of a chat request,
\* also after contributions have accumulated, makes the request a failure
\* with an error description and no text; the partial text is not returned
\* as a success and is not the answer of the invocation, in either mode.
C13_FailureDiscardsPartial ==
    /\ \A i \in Completed :
          TransportFails(probes[i].resp)
             => /\ probes[i].outcome.content = NoText
                /\ probes[i].outcome.error \in {TimedOut, Unexpected}
                /\ (\A k \in 1..Len(probes[i].resp.lines) : ~Fatal(probes[i].resp.lines[k]))
                      => probes[i].outcome.error
                            = IF probes[i].resp.end = "timeout" THEN TimedOut ELSE Unexpected
    /\ chat.pc = "done" /\ probes # <<>> /\ TransportFails(probes[Len(probes)].resp)
          => /\ chat.result.kind \in {"error", "failed"}
             /\ chat.result.text = <<>>
             /\ chat.result.error = probes[Len(probes)].outcome.error

\* in auto mode the connection broke after "H" and "i" had been read
C13_Witness ==
    /\ chat.pc = "done"
    /\ chat.mode = "auto"
    /\ Len(probes) = 1
    /\ probes[1].resp.end = "error"
    /\ Joined(probes[1].resp.lines) = <<"H", "i">>
    /\ TransportFails(probes[1].resp)
    /\ chat.result.kind = "failed"

(* ========================== chat_completion =========================== *)
\* C14: with a non-empty selector the invocation issues exactly one chat
\* request, to the model the selector resolves to, and returns the text or
\* the error of that request: no second request whatever the outcome. Each
\* step adds at most one request.
C14_SelectorOneRequest ==
    /\ [](chat.pc # "idle" /\ chat.args.model # "" /\ probes # <<>> => chat.mode = "selector")
    /\ [](chat.mode = "selector" =>
            /\ chat.args.model # ""
            /\ Len(probes) = 1
            /\ probes[1].model = resolve_model(chat.args.model)
            /\ (chat.pc = "awaiting" <=> probes[1].outcome = Pending)
            /\ chat.pc = "done" =>
                  IF Succeeded(probes[1].outcome)
                  THEN /\ chat.result.kind = "text"
                       /\ chat.result.text = probes[1].outcome.content.text
                  ELSE /\ chat.result.kind = "error"
                       /\ chat.result.error = probes[1].outcome.error)
    /\ [][Len(probes') <= Len(probes) + 1]_vars

\* the one request of a selector call failed with a 429, and the table has
\* aliases a fallback could have gone to
C14_Witness ==
    /\ chat.mode = "selector"
    /\ chat.pc = "done"
    /\ chat.args.model = "GEMINI"
    /\ {"gemini", "llama-free"} \subseteq DOMAIN MODEL_ALIASES
    /\ Len(probes) = 1
    /\ probes[1].model = "google/gemini-pro-vision"
    /\ probes[1].outcome.error = "API Error 429."
    /\ chat.result = ChatError("API Error 429.")

\* an image URL is given (neither None nor "") and is not an http(s) URL of
\* a host other than localhost, 127.0.0.1 and 192.168.*
Disallowed(url) ==
    /\ url.kind = "url"
    /\ \/ url.scheme \notin {"http", "https"}
       \/ url.host \in {<<"localhost">>, <<"127", "0", "0", "1">>}
       \/ SubSeq(url.host, 1, 2) = <<"192", "168">>

Rejected ==
    \/ ~API_KEY
    \/ chat.args.prompt = "" /\ chat.args.image_url.kind # "url"
    \/ Disallowed(chat.args.image_url)

\* C15: an invocation made with the credential unset, or with an empty
\* prompt and no image, or with an image URL that fails validation, issues
\* no chat request, with or without a selector, and returns an error string.
C15_RejectedBeforeRequest ==
    chat.pc # "idle" /\ Rejected =>
        /\ probes = <<>>
        /\ chat.pc = "done"
        /\ chat.result.kind = "error"
        /\ chat.result.error \in
              { "Error: OPENROUTER_API_KEY is not set.",
                "Error: Prompt cannot be empty without an image.",
                "Error: Invalid or disallowed image URL." }

\* an auto-mode call with a prompt and a private-network image URL
C15_Witness ==
    /\ chat.pc = "done"
    /\ API_KEY
    /\ chat.args.model = ""
    /\ chat.args.prompt = "hi"
    /\ chat.args.image_url = Url("http", <<"192", "168", "1", "10">>)
    /\ probes = <<>>
    /\ chat.result = ChatError("Error: Invalid or disallowed image URL.")

(* ====================== errors at the tool boundary =================== *)
\* the entries lines 125-128 work on contain one whose price float() rejects
BadEntryRendered(r) ==
    /\ r.data.type = "list"
    /\ \E k \in 1..Len(r.data.entries) :
          /\ r.data.entries[k].price = "abc"
          /\ r.search # <<>> => Matches(r.data.entries[k], r.search)

\* C16: list_models and chat_completion end by returning a string whatever
\* the upstream does: an error status, a timeout, a connection error, a
\* body without `data` or with a `data` of the wrong type, a malformed
\* entry, a malformed or wrongly typed stream chunk each come back as an
\* error description, and no exception leaves the tool.
C16_AlwaysReturnsString ==
    /\ last.path # "none" =>
          /\ last.result.kind \in {"error", "listing"}
          /\ last.result.kind = "error" => last.result.text # ""
          /\ last.path = "fetched" /\ last.resp # "ok" => last.result.kind = "error"
          /\ last.path = "fetched" /\ last.resp = "ok" /\ last.data.type = "null"
                => last.result.kind = "error"
          /\ last.path = "fetched" /\ BadEntryRendered(last) => last.result.kind = "error"
    /\ \A i \in Completed :
          /\ \/ probes[i].outcome.content.some /\ probes[i].outcome.error = "None"
             \/ /\ probes[i].outcome.content = NoText
                /\ probes[i].outcome.error
                      \in {TimedOut, Unexpected, "API Error 429.", "API Error 500."}
          /\ probes[i].resp.status \notin {0, 200} => probes[i].outcome = Failure(ApiError(probes[i].resp.status))
          /\ (\E k \in 1..Len(UpToDone(probes[i].resp.lines)) :
                 Fatal(UpToDone(probes[i].resp.lines)[k]))
                => Failed(probes[i].outcome)
    /\ chat.pc = "done" =>
          /\ chat.result.kind \in {"error", "text", "auto", "failed"}
          /\ chat.result.kind \in {"error", "failed"} => chat.result.error # ""

\* the catalogue fetched has an entry whose price is not a number: the
\* ValueError of the sort came back as the error string
C16_Witness ==
    /\ last.path = "fetched"
    /\ last.resp = "ok"
    /\ BadEntryRendered(last)
    /\ Len(last.data.entries) = 2
    /\ last.result = ErrorResult("An unexpected error occurred while fetching models.")

(* ===================== the cache under interleaving =================== *)
\* the same value up to the order of its entries
SameContent(a, b) == a.type = b.type /\ BagOf(a.entries) = BagOf(b.entries)

\* C17: under every interleaving of list_models invocations the two fields
\* of the cache are written together: at every moment the entries and the
\* expiry come from the same fetched response (or both are the initial
\* ones), a step that changes one of them is the return of a fetch and sets
\* both from its response, and an invocation served from the cache lists
\* from all the entries of that one response. Two invocations that both saw
\* the cache expired both fetch, and nothing else.
C17_CachePairAtomic ==
    /\ [](IF stored.written
          THEN /\ model_cache.expiry = stored.at + TTL
               /\ SameContent(model_cache.models, stored.data)
          ELSE model_cache = [models |-> ListValue(<<>>), expiry |-> 0])
    /\ [][model_cache'.expiry # model_cache.expiry
            \/ ~SameContent(model_cache'.models, model_cache.models)
            => /\ FetchReturns
               /\ last'.resp = "ok"
               /\ model_cache'.expiry = now + TTL
               /\ SameContent(model_cache'.models, last'.data)]_vars
    /\ [](last.path = "cached" =>
            /\ stored.written
            /\ last.at < stored.at + TTL
            /\ last.result.kind = "listing"
                  => last.result.found = Len(Filtered(stored.data, last.search).entries))
    /\ [][FetchIssued => now >= model_cache.expiry]_vars

\* while r2's request was in flight r1's fetch filled the cache and a read
\* was served from it
C17_Witness ==
    /\ lm["r2"].pc = "awaiting"
    /\ last.path = "cached"
    /\ last.result.kind = "listing"
    /\ last.result.found = 2
    /\ fetchCount = 2
    /\ now = StartTime

(* ============================ the listing ============================= *)
\* C18: rendering leaves the cached catalogue alone: after any list_models
\* call, with or without a search term, the cached entries are the sequence
\* the upstream returned at the last fetch that filled the cache, in the
\* same order.
C18_RenderKeepsCacheOrder ==
    stored.written => model_cache.models = stored.data

\* C19: for every list of entries the listing shows the entries in
\* ascending order of prompt price, an entry whose price is missing or
\* cannot be parsed counting as the largest and being listed all the same.
C19_SortedUnparsableLast ==
    last.path = "fetched" /\ last.resp = "ok" /\ last.data.type = "list" =>
        LET all == Filtered(last.data, last.search).entries
            shown == last.result.shown
        IN  /\ last.result.kind = "listing"
            /\ last.result.found = Len(all)
            /\ Len(shown) = Min(last.result.top, Len(all))
            /\ \A i, j \in 1..Len(shown) : i < j => PriceKey(shown[i]) <= PriceKey(shown[j])
            /\ \A i \in 1..Len(shown), k \in 1..Len(all) :
                  PriceKey(shown[i]) <= PriceKey(all[k])
                     \/ \E j \in 1..Len(shown) : shown[j] = all[k]

(* ============================ resolution ============================== *)
\* a non-empty selector that, lower-cased, is no key of the alias table
UnknownSelector(name) == name # "" /\ LowerName(name) \notin DOMAIN MODEL_ALIASES

MappedSelector(name) ==
    /\ name # ""
    /\ LowerName(name) \in DOMAIN MODEL_ALIASES
    /\ MODEL_ALIASES[LowerName(name)] # ""

WellFormedBody(resp) ==
    /\ ReadThrough(resp)
    /\ \A k \in 1..Len(UpToDone(resp.lines)) : ~Fatal(UpToDone(resp.lines)[k])

\* content when the key is present, reasoning when it is absent
RECURSIVE JoinedContentIfPresent(_)
JoinedContentIfPresent(lines) ==
    IF lines = <<>> THEN <<>>
    ELSE LET line == Head(lines)
         IN  (IF ~(line.data /\ line.kind = "chunk") THEN <<>>
              ELSE IF line.content.has THEN line.content.text
              ELSE IF line.reasoning.has THEN line.reasoning.text
              ELSE <<>>)
             \o JoinedContentIfPresent(Tail(lines))

\* content when it is present and not empty, reasoning otherwise
RECURSIVE JoinedContentOrReasoning(_)
JoinedContentOrReasoning(lines) ==
    IF lines = <<>> THEN <<>>
    ELSE LET line == Head(lines)
         IN  (IF ~(line.data /\ line.kind = "chunk") THEN <<>>
              ELSE IF line.content.has /\ line.content.text # <<>> THEN line.content.text
              ELSE IF line.reasoning.has THEN line.reasoning.text
              ELSE <<>>)
             \o JoinedContentOrReasoning(Tail(lines))

\* C22 as stated: a chunk contributes its content whenever the key is
\* present and its reasoning only when content is absent, so a chunk with
\* an empty content contributes nothing whatever its reasoning.
C22_ReasoningOnlyIfAbsent ==
    \A i \in Completed :
        WellFormedBody(probes[i].resp)
            => probes[i].outcome
                  = Success(JoinedContentIfPresent(UpToDone(probes[i].resp.lines)))

\* C22, amended: a chunk contributes its content when that is present and
\* not empty, and otherwise its reasoning: a chunk with an empty content
\* and a non-empty reasoning contributes the reasoning.
C22_ReasoningIfNoContent ==
    \A i \in Completed :
        WellFormedBody(probes[i].resp)
            => probes[i].outcome
                  = Success(JoinedContentOrReasoning(UpToDone(probes[i].resp.lines)))

\* after "H", a chunk with content "" and reasoning "r" added "r"
C22_Witness ==
    /\ Len(probes) = 1
    /\ probes[1].resp.status = 200
    /\ probes[1].resp.lines
          = << ChunkLine(Text(<<"H">>), Absent),
               ChunkLine(Text(<<>>), Text(<<"r">>)),
               DoneLine >>
    /\ probes[1].outcome = Success(<<"H", "r">>)
    /\ chat.result.kind = "text"

(* ============================ termination ============================= *)
\* C23: when every request ends, every invocation that has issued a
\* request returns. In auto mode the requests are at most one per
\* candidate, the candidates at most six (the priority aliases, the vision
\* alias and the default), and the invocation returns at the first success
\* or when the last candidate has failed.
C23_EventuallyReturns ==
    /\ (chat.pc = "awaiting") ~> (chat.pc = "done")
    /\ [](chat.mode = "auto" =>
            /\ Len(chat.candidates) <= Len(AUTO_MODEL_PRIORITY) + 2
            /\ Len(chat.candidates) <= 6
            /\ Len(probes) <= Len(chat.candidates)
            /\ \A i, j \in 1..Len(chat.candidates) :
                  i # j => chat.candidates[i].label # chat.candidates[j].label
            /\ \A i \in 1..Len(probes) : probes[i].label = chat.candidates[i].label)
    /\ [](AutoDone =>
            \/ Succeeded(probes[Len(probes)].outcome)
            \/ /\ Len(probes) = Len(chat.candidates)
               /\ \A i \in 1..Len(probes) : Failed(probes[i].outcome))
    /\ [][chat.pc = "done" => chat' = chat /\ probes' = probes]_vars

\* six candidates, six requests, all failed: the walk ended by exhaustion
C23_Witness ==
    /\ AutoDone
    /\ Len(chat.candidates) = 6
    /\ Len(probes) = 6
    /\ chat.result.kind = "failed"

(* ===================== what the cache is filled with ================== *)
\* C24: the cache holds every entry of the response of the last fetch that
\* filled it, whatever search term and limit the fetching call carried, and
\* a call served from the cache filters all of those entries by its own
\* search term, not the entries an earlier call listed.
C24_CacheHoldsWholeCatalog ==
    /\ [][FetchReturns /\ last'.resp = "ok"
            => /\ stored'.data = last'.data
               /\ SameContent(model_cache'.models, last'.data)]_vars
    /\ [][last' # last /\ last'.path = "cached"
            => /\ stored' = stored
               /\ SameContent(model_cache'.models, model_cache.models)]_vars
    /\ [](stored.written /\ stored.data.type = "list"
            => /\ model_cache.models.type = "list"
               /\ Len(model_cache.models.entries) = Len(stored.data.entries)
               /\ \A k \in 1..Len(stored.data.entries) :
                     InList(stored.data.entries[k], model_cache.models.entries))
    /\ [](last.path = "cached" /\ last.result.kind = "listing" /\ stored.data.type = "list"
            => LET all == SortByPrice(SelectSeq(stored.data.entries,
                                                LAMBDA e : last.search = <<>> \/ Matches(e, last.search)))
               IN  /\ last.result.found = Len(all)
                   /\ last.result.shown = SubSeq(all, 1, Min(last.result.top, Len(all))))

\* the fetching call searched for "A" with limit 0 and listed one entry;
\* the cache holds both entries of the response
C24_Witness ==
    /\ last.path = "fetched"
    /\ last.resp = "ok"
    /\ last.search = <<"A">>
    /\ last.result.kind = "listing"
    /\ last.result.top = 1
    /\ last.result.found = 1
    /\ Len(last.data.entries) = 2
    /\ Len(model_cache.models.entries) = 2

(* ======================== a body without [DONE] ======================= *)
\* the body of a 200 response ends, and no data line of it is [DONE]
EndsWithoutDone(resp) == resp.status = 200 /\ resp.end = "eof" /\ ~HasDone(resp.lines)

\* C25: a 200 response whose body ends without a [DONE] line, the empty
\* body included, is a success: the request returns the text accumulated,
\* possibly empty, with no error, and in auto mode no request follows it.
C25_NoDoneIsSuccess ==
    \A i \in Completed :
        EndsWithoutDone(probes[i].resp)
            => /\ probes[i].outcome.content.some
               /\ probes[i].outcome.error = "None"
               /\ probes[i].outcome.content.text = Joined(probes[i].resp.lines)
               /\ i = Len(probes)
               /\ chat.pc = "done"
               /\ chat.mode = "auto" => chat.result.kind = "auto"
====
